---- MODULE Spec2Model ----
(***************************************************************************)
(* Model of src/sdl2/messagebox.rs: the two message-box entry points, the  *)
(* string encoding they perform, the colour-scheme conversion and the      *)
(* decoding of the native layer's answer.                                  *)
(*                                                                         *)
(* The native calls are blocking foreign calls: each entry point is split  *)
(* at that call into the part that runs before it (encoding and assembly)  *)
(* and the part that runs after it returns (decoding).  The native layer   *)
(* answers with an arbitrary status, an arbitrary button id (or leaves the *)
(* output parameter untouched) and an arbitrary last-error string.         *)
(***************************************************************************)
EXTENDS Integers, Sequences, FiniteSets, TLC

VARIABLES pc, op, flags, title, message, buttons, window, scheme,
          c_title, c_message, button_texts, raw_buttons, scheme_rec,
          button_id, status, encoded, native_calls, get_error_calls,
          last_error, native_saw, result, colors

vars == <<pc, op, flags, title, message, buttons, window, scheme,
          c_title, c_message, button_texts, raw_buttons, scheme_rec,
          button_id, status, encoded, native_calls, get_error_calls,
          last_error, native_saw, result, colors>>

(* ------------------------------ bounds --------------------------------- *)
MaxLen == 2
MaxButtons == 2

(* ------------------------------ inputs --------------------------------- *)
NUL == 0
Bytes == {NUL, 65}
Texts == UNION {[1..n -> Bytes] : n \in 0..MaxLen}
\* button texts: one without a zero byte, two with the zero byte at different places
ButtonTexts == {<<65>>, <<NUL>>, <<65, NUL>>}

MESSAGEBOX_ERROR == 16
MessageBoxFlag == {MESSAGEBOX_ERROR}
MESSAGEBOX_BUTTON_NOTHING == 0
MessageBoxButtonFlag == {MESSAGEBOX_BUTTON_NOTHING}

CLOSE_ID == -1
ButtonIdChoices == {CLOSE_ID, 10, 20}
ButtonData == [flags : MessageBoxButtonFlag, button_id : ButtonIdChoices, text : ButtonTexts]
ButtonSeqs == UNION {[1..n -> ButtonData] : n \in 0..MaxButtons}

NullPtr == "null"
WindowChoices == {"none", "win"}

MessageBoxColorScheme(bg, tx, bb, bk, bs) ==
    [background |-> bg, text |-> tx, button_border |-> bb,
     button_background |-> bk, button_selected |-> bs]
ExampleScheme ==
    MessageBoxColorScheme(<<1,2,3>>, <<4,5,6>>, <<7,8,9>>, <<10,11,12>>, <<13,14,15>>)
\* Option<MessageBoxColorScheme>: <<>> is None, <<s>> is Some(s)
NoScheme == <<>>
SomeScheme(s) == <<s>>
SchemeChoices == {NoScheme, SomeScheme(ExampleScheme)}
TripleChoices == {<<1,2,3>>, <<4,5,6>>, <<7,8,9>>, <<10,11,12>>, <<13,14,15>>,
                  <<0,0,255>>, <<255,0,0>>}
ColorSchemes == {MessageBoxColorScheme(a, b, c, d, e) :
                    a \in TripleChoices, b \in TripleChoices, c \in TripleChoices,
                    d \in TripleChoices, e \in TripleChoices}

(* answers of the native layer *)
Statuses == {0, -1}
ReportedIds == {CLOSE_ID, 10, 20, 30}
ErrStrings == {"stale error"}
NativeErrStrings == {"stale error", "no video"}

(* --------------------------- CString::new ------------------------------ *)
FirstNul(t) == CHOOSE i \in 1..Len(t) : t[i] = NUL /\ \A j \in 1..(i-1) : t[j] # NUL

\* CString::new(t): fails with NulError(position of the first zero byte, bytes)
\* when t holds a zero byte, else yields the bytes with a terminator appended.
CString_new_unchecked(t) == [ok |-> TRUE, bytes |-> Append(t, NUL), nul_position |-> -1]
CString_new(t) ==
    IF \E i \in 1..Len(t) : t[i] = NUL
    THEN [ok |-> FALSE, bytes |-> t, nul_position |-> FirstNul(t) - 1]
    ELSE [ok |-> TRUE, bytes |-> Append(t, NUL), nul_position |-> -1]

(* ----------------------- colour scheme conversion ---------------------- *)
to_message_box_color(t) == [r |-> t[1], g |-> t[2], b |-> t[3]]

from_scheme_swapped(s) ==
    [i \in 0..4 |->
        CASE i = 0 -> to_message_box_color(s.background)
          [] i = 1 -> to_message_box_color(s.text)
          [] i = 2 -> to_message_box_color(s.button_background)
          [] i = 3 -> to_message_box_color(s.button_border)
          [] i = 4 -> to_message_box_color(s.button_selected)]
from_scheme(s) ==
    [i \in 0..4 |->
        CASE i = 0 -> to_message_box_color(s.background)
          [] i = 1 -> to_message_box_color(s.text)
          [] i = 2 -> to_message_box_color(s.button_border)
          [] i = 3 -> to_message_box_color(s.button_background)
          [] i = 4 -> to_message_box_color(s.button_selected)]

NoColors == [i \in 0..4 |-> [r |-> 0, g |-> 0, b |-> 0]]
Indeterminate == 170
GarbageColors == [i \in 0..4 |-> [r |-> Indeterminate, g |-> Indeterminate, b |-> Indeterminate]]

(* ------------------------------ results -------------------------------- *)
Res(k) == [kind |-> k, button |-> 0, id |-> 0, nul_position |-> -1, msg |-> ""]
NoResult == Res("none")
OkUnit == Res("Ok")
CloseButton == Res("CloseButton")
CustomButton(i) == [Res("CustomButton") EXCEPT !.button = i]
InvalidTitle(e) == [Res("InvalidTitle") EXCEPT !.nul_position = e]
InvalidMessage(e) == [Res("InvalidMessage") EXCEPT !.nul_position = e]
InvalidButton(e, id) == [Res("InvalidButton") EXCEPT !.nul_position = e, !.id = id]
SdlError(s) == [Res("SdlError") EXCEPT !.msg = s]
Panic == Res("panic")

(* ------------------------------ buffers -------------------------------- *)
Unallocated == [state |-> "unallocated", data |-> <<>>]
Alive(d) == [state |-> "alive", data |-> d]
NoRecord == [state |-> "unallocated", data |-> NoColors]
Freed(b) == IF b.state = "alive" THEN [b EXCEPT !.state = "freed"] ELSE b

(* ---------------------- encoding of the inputs -------------------------- *)
\* buttons.iter().map(|b| CString::new(b.text).map_err(|e| (e, b.button_id))).collect():
\* collecting into a Result stops at the first Err; tried counts the buttons
\* CString::new was applied to.
RECURSIVE collect_button_texts_all(_, _, _, _)
collect_button_texts_all(bs, i, acc, err) ==
    IF i > Len(bs)
    THEN IF err.ok THEN [ok |-> TRUE, texts |-> acc, tried |-> Len(bs), nul_position |-> -1, id |-> 0]
         ELSE [err EXCEPT !.texts = acc, !.tried = Len(bs)]
    ELSE LET c == CString_new(bs[i].text) IN
         IF c.ok THEN collect_button_texts_all(bs, i + 1, Append(acc, c.bytes), err)
         ELSE collect_button_texts_all(bs, i + 1, acc,
                  [ok |-> FALSE, texts |-> acc, tried |-> i,
                   nul_position |-> c.nul_position, id |-> bs[i].button_id])
collect_button_texts_last(bs, i, acc) ==
    collect_button_texts_all(bs, i, acc,
        [ok |-> TRUE, texts |-> acc, tried |-> 0, nul_position |-> -1, id |-> 0])

RECURSIVE collect_button_texts(_, _, _)
collect_button_texts(bs, i, acc) ==
    IF i > Len(bs)
    THEN [ok |-> TRUE, texts |-> acc, tried |-> Len(bs), nul_position |-> -1, id |-> 0]
    ELSE LET c == CString_new(bs[i].text) IN
         IF c.ok THEN collect_button_texts(bs, i + 1, Append(acc, c.bytes))
         ELSE [ok |-> FALSE, texts |-> acc, tried |-> i,
               nul_position |-> c.nul_position, id |-> bs[i].button_id]

\* raw_buttons: one descriptor per (button, encoded text) pair; text is a
\* pointer into button_texts, modelled as the index of the buffer it points to.
make_raw_buttons(bs, texts) ==
    [i \in 1..(IF Len(bs) < Len(texts) THEN Len(bs) ELSE Len(texts)) |->
        [flags |-> bs[i].flags, buttonid |-> bs[i].button_id, text |-> i]]

Encoded(err, ct, cm, bt, n) ==
    [error |-> err, c_title |-> ct, c_message |-> cm, button_texts |-> bt, tried |-> n]

\* show_simple_message_box up to the native call: title, then message.
encode_simple(t, m) ==
    LET ct == CString_new(t)
        cm == CString_new(m)
    IN  IF ~ct.ok THEN Encoded(InvalidTitle(ct.nul_position), Unallocated, Unallocated, Unallocated, 0)
        ELSE IF ~cm.ok
        THEN Encoded(InvalidMessage(cm.nul_position), Freed(Alive(ct.bytes)), Unallocated, Unallocated, 0)
        ELSE Encoded(NoResult, Alive(ct.bytes), Alive(cm.bytes), Unallocated, 0)

\* show_message_box up to the assembly step: title, then message, then the
\* button texts; an early return drops what was allocated before it.
encode_custom_message_first(t, m, bs) ==
    LET cm == CString_new(m)
        ct == CString_new(t)
        bt == collect_button_texts(bs, 1, <<>>)
    IN  IF ~cm.ok THEN Encoded(InvalidMessage(cm.nul_position), Unallocated, Unallocated, Unallocated, 0)
        ELSE IF ~ct.ok
        THEN Encoded(InvalidTitle(ct.nul_position), Unallocated, Freed(Alive(cm.bytes)), Unallocated, 0)
        ELSE IF ~bt.ok
        THEN Encoded(InvalidButton(bt.nul_position, bt.id), Freed(Alive(ct.bytes)),
                     Freed(Alive(cm.bytes)), Freed(Alive(bt.texts)), bt.tried)
        ELSE Encoded(NoResult, Alive(ct.bytes), Alive(cm.bytes), Alive(bt.texts), bt.tried)
encode_custom(t, m, bs) ==
    LET ct == CString_new(t)
        cm == CString_new(m)
        bt == collect_button_texts(bs, 1, <<>>)
    IN  IF ~ct.ok THEN Encoded(InvalidTitle(ct.nul_position), Unallocated, Unallocated, Unallocated, 0)
        ELSE IF ~cm.ok
        THEN Encoded(InvalidMessage(cm.nul_position), Freed(Alive(ct.bytes)), Unallocated, Unallocated, 0)
        ELSE IF ~bt.ok
        THEN Encoded(InvalidButton(bt.nul_position, bt.id), Freed(Alive(ct.bytes)),
                     Freed(Alive(cm.bytes)), Freed(Alive(bt.texts)), bt.tried)
        ELSE Encoded(NoResult, Alive(ct.bytes), Alive(cm.bytes), Alive(bt.texts), bt.tried)

(* ---------------------- decoding of the answer ------------------------- *)
\* buttons.iter().find(|b| b.button_id == id): index of the first match, 0 for None.
find_button_last(bs, id) ==
    IF \E i \in 1..Len(bs) : bs[i].button_id = id
    THEN CHOOSE i \in 1..Len(bs) :
            bs[i].button_id = id /\ \A j \in (i+1)..Len(bs) : bs[j].button_id # id
    ELSE 0
find_button(bs, id) ==
    IF \E i \in 1..Len(bs) : bs[i].button_id = id
    THEN CHOOSE i \in 1..Len(bs) :
            bs[i].button_id = id /\ \A j \in 1..(i-1) : bs[j].button_id # id
    ELSE 0

\* the match on button_id after a zero status; button.unwrap() panics on None.
decode_button_lookup_first(bs, id) ==
    LET button == find_button(bs, id) IN
    IF button # 0 THEN CustomButton(button)
    ELSE IF id = CLOSE_ID THEN CloseButton ELSE Panic
decode_button(bs, id) ==
    IF id = CLOSE_ID THEN CloseButton
    ELSE LET button == find_button(bs, id) IN
         IF button = 0 THEN Panic ELSE CustomButton(button)

(* ------------------------------ state ---------------------------------- *)
NoNativeData ==
    [flags |-> 0, window |-> NullPtr, title |-> <<>>, message |-> <<>>,
     numbuttons |-> 0, buttons |-> <<>>, color_scheme |-> NullPtr, colors |-> NoColors]

InitCommon ==
    /\ op = "none" /\ flags = 0 /\ title = <<>> /\ message = <<>>
    /\ buttons = <<>> /\ window = "none" /\ scheme = NoScheme
    /\ c_title = Unallocated /\ c_message = Unallocated
    /\ button_texts = Unallocated /\ raw_buttons = Unallocated
    /\ scheme_rec = NoRecord
    /\ button_id = 0 /\ status = 0 /\ encoded = 0
    /\ native_calls = 0 /\ get_error_calls = 0
    /\ native_saw = NoNativeData /\ result = NoResult /\ colors = NoColors

Init ==
    /\ pc = "idle"
    /\ last_error \in ErrStrings
    /\ InitCommon

window_raw(w) == IF w = "none" THEN NullPtr ELSE w

(* --------------------- show_simple_message_box ------------------------- *)
show_simple_message_box_call ==
    /\ pc = "idle"
    /\ \E f \in MessageBoxFlag, t \in Texts, m \in Texts, w \in WindowChoices :
        LET e == encode_simple(t, m) IN
        /\ op' = "simple" /\ flags' = f /\ title' = t /\ message' = m /\ window' = w
        /\ c_title' = e.c_title /\ c_message' = e.c_message
        /\ IF e.error.kind # "none"
           THEN /\ pc' = "done"
                /\ result' = e.error
                /\ UNCHANGED <<native_calls, native_saw>>
           ELSE /\ pc' = "native"
                /\ native_calls' = native_calls + 1
                /\ native_saw' = [NoNativeData EXCEPT !.flags = f, !.window = window_raw(w),
                                     !.title = e.c_title.data, !.message = e.c_message.data]
                /\ UNCHANGED result
    /\ UNCHANGED <<buttons, scheme, button_texts, raw_buttons, scheme_rec, button_id,
                   status, encoded, get_error_calls, last_error, colors>>

SDL_ShowSimpleMessageBox_return ==
    /\ pc = "native" /\ op = "simple"
    /\ \E st \in Statuses, err \in NativeErrStrings :
        /\ status' = st
        /\ last_error' = err
        /\ c_title' = Freed(c_title) /\ c_message' = Freed(c_message)
        /\ IF st = 0
           THEN result' = OkUnit /\ UNCHANGED get_error_calls
           ELSE result' = SdlError(err) /\ get_error_calls' = get_error_calls + 1
    /\ pc' = "done"
    /\ UNCHANGED <<op, flags, title, message, buttons, window, scheme, button_texts,
                   raw_buttons, scheme_rec, button_id, encoded, native_calls,
                   native_saw, colors>>

(* ------------------------- show_message_box ---------------------------- *)
\* The colour-scheme record is a temporary created in the body of the
\* `if let`; whether it still exists when the native call runs depends on the
\* temporary-lifetime rules of the compiler that builds the crate; what the
\* native call reads through a pointer to a dropped record is indeterminate.
show_message_box_call ==
    /\ pc = "idle"
    /\ \E f \in MessageBoxFlag, bs \in ButtonSeqs, t \in Texts, m \in Texts,
          w \in WindowChoices, sc \in SchemeChoices :
       \E temp \in (IF sc = NoScheme THEN {"alive"} ELSE {"alive", "dropped"}) :
        LET e   == encode_custom(t, m, bs)
            raw == make_raw_buttons(bs, e.button_texts.data)
            rec == IF sc = NoScheme THEN NoRecord
                   ELSE IF temp = "alive" THEN Alive(from_scheme(sc[1]))
                   ELSE Freed(Alive(from_scheme(sc[1])))
        IN
        /\ op' = "custom" /\ flags' = f /\ buttons' = bs /\ title' = t /\ message' = m
        /\ window' = w /\ scheme' = sc
        /\ button_id' = 0
        /\ c_title' = e.c_title /\ c_message' = e.c_message
        /\ button_texts' = e.button_texts
        /\ encoded' = e.tried
        /\ IF e.error.kind # "none"
           THEN /\ pc' = "done"
                /\ result' = e.error
                /\ UNCHANGED <<raw_buttons, scheme_rec, native_calls, native_saw, colors>>
           ELSE /\ pc' = "native"
                /\ raw_buttons' = Alive(raw)
                /\ scheme_rec' = rec
                /\ colors' = IF sc = NoScheme THEN colors ELSE from_scheme(sc[1])
                /\ native_calls' = native_calls + 1
                /\ native_saw' =
                     [flags |-> f, window |-> window_raw(w),
                      title |-> e.c_title.data, message |-> e.c_message.data,
                      numbuttons |-> Len(raw),
                      buttons |-> [i \in 1..Len(raw) |->
                                     [flags |-> raw[i].flags, buttonid |-> raw[i].buttonid,
                                      text |-> e.button_texts.data[raw[i].text]]],
                      color_scheme |-> IF sc = NoScheme THEN NullPtr ELSE "scheme_rec",
                      colors |-> IF sc = NoScheme THEN NoColors
                                 ELSE IF temp = "alive" THEN rec.data
                                 ELSE GarbageColors]
                /\ UNCHANGED result
    /\ UNCHANGED <<status, get_error_calls, last_error>>

\* The native call returns a status, may or may not have written the output
\* parameter, and may have replaced the library's last error.
SDL_ShowMessageBox_return ==
    /\ pc = "native" /\ op = "custom"
    /\ \E st \in Statuses, wrote \in BOOLEAN, rep \in ReportedIds, err \in NativeErrStrings :
        LET id == IF wrote THEN rep ELSE button_id IN
        /\ status' = st
        /\ button_id' = id
        /\ last_error' = err
        /\ IF st = 0
           THEN result' = decode_button(buttons, id) /\ UNCHANGED get_error_calls
           ELSE result' = SdlError(err) /\ get_error_calls' = get_error_calls + 1
    /\ c_title' = Freed(c_title) /\ c_message' = Freed(c_message)
    /\ button_texts' = Freed(button_texts) /\ raw_buttons' = Freed(raw_buttons)
    /\ scheme_rec' = Freed(scheme_rec)
    /\ pc' = "done"
    /\ UNCHANGED <<op, flags, title, message, buttons, window, scheme, encoded,
                   native_calls, native_saw, colors>>

Next ==
    \/ show_simple_message_box_call
    \/ SDL_ShowSimpleMessageBox_return
    \/ show_message_box_call
    \/ SDL_ShowMessageBox_return

Spec == Init /\ [][Next]_vars

(* --------------- the colour-scheme conversion on its own --------------- *)
InitColor ==
    /\ pc = "color_idle"
    /\ last_error = ""
    /\ InitCommon

convert_scheme ==
    /\ pc = "color_idle"
    /\ \E sc \in ColorSchemes :
        /\ scheme' = SomeScheme(sc)
        /\ colors' = from_scheme(sc)
    /\ pc' = "color_done"
    /\ UNCHANGED <<op, flags, title, message, buttons, window, c_title, c_message,
                   button_texts, raw_buttons, scheme_rec, button_id, status, encoded,
                   native_calls, get_error_calls, last_error, native_saw, result>>

NextColor == convert_scheme

SpecColor == InitColor /\ [][NextColor]_vars

(* ============================ properties =============================== *)
HasNul(t) == \E i \in 1..Len(t) : t[i] = NUL
NulAt(t) == CHOOSE i \in 0..(Len(t) - 1) : t[i + 1] = NUL /\ \A j \in 1..i : t[j] # NUL
BadButtons == {i \in 1..Len(buttons) : HasNul(buttons[i].text)}
FirstBad == CHOOSE i \in BadButtons : \A j \in BadButtons : i <= j
InvalidKinds == {"InvalidTitle", "InvalidMessage", "InvalidButton"}
OkKinds == {"Ok", "CloseButton", "CustomButton"}
Called == pc # "idle" /\ op \in {"simple", "custom"}
Returned == pc = "done"
NativeReturned == pc = "done" /\ native_calls = 1
Matches == {i \in 1..Len(buttons) : buttons[i].button_id = button_id}

\* C1: whatever the inputs and whatever the native layer answers, both entry
\* points return a success value or a ShowMessageError; neither ever panics.
C1_NeverPanics ==
    Returned => result.kind \in OkKinds \cup InvalidKinds \cup {"SdlError"}

\* C2: a title, message or button text with an embedded null byte makes the
\* call return the Invalid* error of a field that holds such a byte, and
\* neither the native message-box function nor get_error is invoked.
C2_NulNeverReachesNative ==
    (Called /\ (HasNul(title) \/ HasNul(message) \/ BadButtons # {})) =>
        /\ pc = "done"
        /\ native_calls = 0
        /\ get_error_calls = 0
        /\ native_saw = NoNativeData
        /\ result.kind \in InvalidKinds
        /\ result.kind = "InvalidTitle" => HasNul(title)
        /\ result.kind = "InvalidMessage" => HasNul(message)
        /\ result.kind = "InvalidButton" => op = "custom" /\ BadButtons # {}

C2_Witness ==
    /\ pc = "done" /\ op = "custom"
    /\ ~HasNul(title) /\ ~HasNul(message) /\ BadButtons # {}
    /\ result.kind = "InvalidButton" /\ native_calls = 0

\* C3: after a zero status, id -1 decodes to CloseButton and any other id
\* carried by an input button decodes to CustomButton of the first button,
\* in input order, with that id.
C3_DecodesFirstMatch ==
    (NativeReturned /\ op = "custom" /\ status = 0) =>
        /\ button_id = CLOSE_ID => result = CloseButton
        /\ (button_id # CLOSE_ID /\ Matches # {}) =>
              /\ result.kind = "CustomButton"
              /\ result.button \in Matches
              /\ \A j \in Matches : result.button <= j

C3_Witness ==
    /\ NativeReturned /\ op = "custom" /\ status = 0
    /\ Len(buttons) = 2 /\ buttons[1].button_id = 10 /\ buttons[2].button_id = 20
    /\ button_id = 20 /\ result = CustomButton(2)

\* C4: once encoding succeeded the native status alone decides the outcome:
\* zero gives Ok, nonzero gives SdlError of the last error read after the call,
\* whatever the button-id output parameter holds.
C4_StatusAloneDecides ==
    NativeReturned =>
        /\ status = 0 => result.kind \in OkKinds
        /\ status # 0 => result = SdlError(last_error)

\* C5: with valid title and message, a button text with an embedded null
\* yields InvalidButton tagged with the id of the first such button; later
\* buttons are not encoded and the earlier encodings leave nothing behind.
C5_FirstBadButton ==
    (Returned /\ op = "custom" /\ ~HasNul(title) /\ ~HasNul(message) /\ BadButtons # {}) =>
        /\ result = InvalidButton(NulAt(buttons[FirstBad].text), buttons[FirstBad].button_id)
        /\ encoded = FirstBad
        /\ Len(button_texts.data) = FirstBad - 1
        /\ button_texts.state # "alive"
        /\ c_title.state = "freed" /\ c_message.state = "freed"
        /\ raw_buttons = Unallocated /\ scheme_rec = NoRecord
        /\ native_calls = 0 /\ native_saw = NoNativeData

C5_Witness ==
    /\ Returned /\ op = "custom" /\ ~HasNul(title) /\ ~HasNul(message)
    /\ Len(buttons) = 2 /\ BadButtons = {1, 2}
    /\ buttons[1].button_id # buttons[2].button_id
    /\ result.kind = "InvalidButton" /\ result.id = buttons[1].button_id
    /\ encoded = 1

\* C6: every buffer show_message_box hands to the native call by pointer is
\* alive while the native call runs, and all of them are released once
\* show_message_box has returned.
C6_BuffersOutliveCall ==
    /\ (pc = "native" /\ op = "custom") =>
          /\ c_title.state = "alive" /\ c_message.state = "alive"
          /\ button_texts.state = "alive" /\ raw_buttons.state = "alive"
          /\ native_saw.color_scheme # NullPtr => scheme_rec.state = "alive"
    /\ (pc = "done" /\ op = "custom") =>
          /\ c_title.state # "alive" /\ c_message.state # "alive"
          /\ button_texts.state # "alive" /\ raw_buttons.state # "alive"
          /\ scheme_rec.state # "alive"

\* C7: with no buttons, a valid title and message and a zero native status,
\* show_message_box succeeds with CloseButton, never with CustomButton.
C7_EmptyButtonsClose ==
    (NativeReturned /\ op = "custom" /\ buttons = <<>> /\ status = 0) =>
        result = CloseButton

\* C8: the conversion of a colour scheme fills slots 0..4 with background,
\* text, button_border, button_background, button_selected in that order,
\* each with r, g, b taken from the triple's first, second, third component.
RGB(t) == [r |-> t[1], g |-> t[2], b |-> t[3]]
C8_ColorOrder ==
    pc = "color_done" =>
        /\ DOMAIN colors = 0..4
        /\ colors[0] = RGB(scheme[1].background)
        /\ colors[1] = RGB(scheme[1].text)
        /\ colors[2] = RGB(scheme[1].button_border)
        /\ colors[3] = RGB(scheme[1].button_background)
        /\ colors[4] = RGB(scheme[1].button_selected)

C8_Witness ==
    /\ pc = "color_done" /\ scheme = SomeScheme(ExampleScheme)
    /\ colors = [i \in 0..4 |-> [r |-> 3 * i + 1, g |-> 3 * i + 2, b |-> 3 * i + 3]]

\* C9: a button with id -1 is not rejected; a successful native call that
\* reports -1 gives CloseButton even then, so no result is CustomButton of a
\* button whose id is -1.
C9_MinusOneIsClose ==
    /\ (Called /\ op = "custom" /\ ~HasNul(title) /\ ~HasNul(message) /\ BadButtons = {}
          /\ \E i \in 1..Len(buttons) : buttons[i].button_id = CLOSE_ID) =>
          native_calls = 1 /\ result.kind \notin InvalidKinds
    /\ (NativeReturned /\ op = "custom" /\ status = 0 /\ button_id = CLOSE_ID) =>
          result = CloseButton
    /\ result.kind = "CustomButton" => buttons[result.button].button_id # CLOSE_ID

C9_Witness ==
    /\ NativeReturned /\ op = "custom" /\ status = 0 /\ button_id = CLOSE_ID
    /\ \E i \in 1..Len(buttons) : buttons[i].button_id = CLOSE_ID
    /\ result = CloseButton

\* C10: in both entry points a null in the title gives InvalidTitle whatever
\* else is invalid, otherwise a null in the message gives InvalidMessage, and
\* InvalidButton is reported only when title and message are both valid.
C10_ErrorPrecedence ==
    (Returned /\ op \in {"simple", "custom"}) =>
        /\ HasNul(title) => result.kind = "InvalidTitle" /\ result.nul_position = NulAt(title)
        /\ (~HasNul(title) /\ HasNul(message)) =>
              result.kind = "InvalidMessage" /\ result.nul_position = NulAt(message)
        /\ result.kind = "InvalidButton" => ~HasNul(title) /\ ~HasNul(message)

C10_Witness ==
    /\ Returned /\ op = "custom"
    /\ HasNul(title) /\ HasNul(message) /\ BadButtons # {}
    /\ result.kind = "InvalidTitle"

====
